---------------------------- MODULE Spec2Model ----------------------------
(***************************************************************************)
(* State-machine model of the MongoDB replica-set demonstration scripts   *)
(* under mongo-replica/scritps:                                            *)
(*   failover.py    main (orchestrator) running concurrently with the     *)
(*                  Writer thread, the docker stop/start fault injector   *)
(*                  and the per-node probes;                               *)
(*   consistency.py, durablilty.py   the show_docs probe rounds;           *)
(*   write_concern.py   the latency benchmark per acknowledgment level.    *)
(*                                                                         *)
(* Python values: None is the empty tuple <<>> and a present value v is   *)
(* the 1-tuple <<v>>.  An ISO timestamp string of instant t (now_iso) is  *)
(* <<t>>; iso_to_dt parses it back to the instant t.                       *)
(* Time is abstracted: a sleep is a stuttering step, and a deadline of a  *)
(* polling loop may elapse at any iteration that did not observe its      *)
(* condition.  The writer reads the clock once per attempt, at least one  *)
(* interval apart, so successive attempts carry increasing timestamps.    *)
(* On one run every failed insert raises the same driver exception class  *)
(* (driverFault); all classes are covered across runs.                    *)
(***************************************************************************)
EXTENDS Integers, Sequences, FiniteSets, TLC

VARIABLES
    script,             \* which script runs: "failover", "consistency",
                        \* "durablilty" or "write_concern"
    bpc,                \* write_concern.py: position in the script
    wcLevel,            \* write_concern.py: index of the level in tests (0 before the loop)
    wcRun,              \* write_concern.py: attempts made at this level (the loop's i)
    wcErr,              \* write_concern.py: "Error on <label>" lines printed at this level
    latencies,          \* write_concern.py: the latency sample of this level
    wcOut,              \* write_concern.py: the result lines printed, one per level
    ppc,                \* consistency.py / durablilty.py: position in the script
    phase,              \* consistency.py: the demonstration; durablilty.py: the test label
    ids,                \* show_docs results so far: label -> set of _id
    attempted,          \* history: labels whose read was attempted in this round
    readFailed,         \* history: labels whose read raised in this round
    verdicts,           \* printed comparison outcomes, <<phase, step, text>>
    pc,                 \* main(): position in failover.py main
    driverFault,        \* environment: the class the driver raises when an insert fails
    legacyJoin,         \* interpreter: Thread.join calls self._stop() (CPython < 3.13)
    primary_before,     \* main: primary observed before the experiment
    first_failure,      \* main: ISO timestamp of first failed record, or None
    new_primary,        \* main: newly elected primary, or None
    first_success_after,\* main: ISO timestamp of first success after failure, or None
    container,          \* docker state of PRIMARY_CONTAINER
    injFailed,          \* history: a stop_container/start_container call raised
    stopOnStopped,      \* history: stop_container was invoked on a stopped container
    printed,            \* set of report lines main has printed (by tag)
    summary,            \* (attempts, successes, failures) printed by main, or None
    downtime,           \* "Approx downtime (s)" printed by main, or None
    timedOut,           \* history: set of polling loops whose deadline elapsed
    seqs_map,           \* main: node -> list_seqs result (dict in insertion order)
    majOk,              \* main: majority test, <<i, ok>> loop counter and ack count
    wpc,                \* Writer thread position
    seq,                \* Writer.run local seq
    ts,                 \* Writer.run local ts of the attempt in flight
    clock,              \* wall clock read by now_iso()
    records,            \* Writer.records
    stopEv,             \* Writer._stop event
    lastExc,            \* history: what the last insert_one raised ("none" if it returned)
    joined,             \* history: a Writer.join call has returned to main
    stopAt,             \* history: the Writer's position when stop() was called
    baseline,           \* main: choose_baseline result
    missing             \* main: node -> printed missing list, or None for "read error"

mainVars == <<pc, driverFault, legacyJoin, primary_before, first_failure, new_primary,
              first_success_after, container, injFailed, stopOnStopped, printed,
              summary, downtime, timedOut, seqs_map, majOk, joined, stopAt,
              baseline, missing>>
writerVars == <<wpc, seq, ts, clock, records, stopEv, lastExc>>
probeVars == <<ppc, phase, ids, attempted, readFailed, verdicts>>
benchVars == <<bpc, wcLevel, wcRun, wcErr, latencies, wcOut>>
vars == <<script, mainVars, writerVars, probeVars, benchVars>>

-----------------------------------------------------------------------------
(* Bounds of the model: the scripts use WRITER_TOTAL = 40,                 *)
(* WRITES_BEFORE_STOP = 10, MAJ_BATCH = 20 and DOC_COUNT = 10;             *)
(* write_concern.py uses RUNS = 100.                                       *)
WRITER_TOTAL == 3
WRITES_BEFORE_STOP == 1
MAJ_BATCH == 1
DOC_COUNT == 2
RUNS == 2
MaxProbeSeq == 1

None == <<>>
Some(v) == <<v>>

\* NODE_URIS, in dict (insertion) order.
NodeOrder == <<"mongo1", "mongo2", "mongo3">>
Nodes == {NodeOrder[i] : i \in 1..Len(NodeOrder)}
PRIMARY_CONTAINER == "mongo1"

\* Member names replSetGetStatus can report as PRIMARY.  main only compares a
\* name with primary_before, so the second and third member are interchangeable
\* and one of them is left out.
MemberNames == {"mongo1:27017", "mongo2:27017"}

\* seq values a node's collection is probed for (list_seqs)
ProbeSeqs == {0}
\* The seqs a node may hold when the final comparison is examined on its own.
WideProbeSeqs == 0..MaxProbeSeq

\* now_iso(): the ISO string of the current instant.
now_iso(t) == <<t>>
\* iso_to_dt(): parses an ISO string; None when it does not parse.
iso_to_dt(s) == IF Len(s) = 1 THEN Some(s[1]) ELSE None

-----------------------------------------------------------------------------
(* Writer thread.                                                          *)

\* Exceptions insert_one can raise, by the driver's class.
ExcTypes == {"ServerSelectionTimeoutError", "AutoReconnect", "WriteConcernError",
             "NotPrimaryError", "Exception"}

\* pymongo.errors class hierarchy: the proper superclasses of each class.
Supers(e) ==
    CASE e = "ServerSelectionTimeoutError" -> {"AutoReconnect", "Exception"}
      [] e = "NotPrimaryError"             -> {"AutoReconnect", "Exception"}
      [] e = "AutoReconnect"               -> {"Exception"}
      [] e = "WriteConcernError"           -> {"Exception"}
      [] OTHER                             -> {}
IsInstance(e, c) == e = c \/ c \in Supers(e)

\* The except clauses of Writer.run in source order: <<class caught, message prefix>>.
HandlersSpecificOnly ==
    << <<"ServerSelectionTimeoutError", "ServerSelectionTimeout">>,
       <<"AutoReconnect", "AutoReconnect">>,
       <<"WriteConcernError", "WriteConcernError">>,
       <<"NotPrimaryError", "NotPrimary">> >>
Handlers == << <<"ServerSelectionTimeoutError", "ServerSelectionTimeout">>,
               <<"AutoReconnect", "AutoReconnect">>,
               <<"WriteConcernError", "WriteConcernError">>,
               <<"NotPrimaryError", "NotPrimary">>,
               <<"Exception", "Other">> >>

\* The prefix recorded for exception e: that of the first clause matching it.
RecordedKind(e) ==
    LET i == CHOOSE k \in 1..Len(Handlers) :
                /\ IsInstance(e, Handlers[k][1])
                /\ \A j \in 1..(k-1) : ~IsInstance(e, Handlers[j][1])
    IN Handlers[i][2]

\* One entry of Writer.records: (seq, iso_ts, success_bool, err_msg_or_None).
Rec(s, t, ok, err) == [seq |-> s, ts |-> t, ok |-> ok, err |-> err]

\* seq += 1 after the try statement, whatever the outcome
NextSeqOnSuccessOnly(s, ok) == IF ok THEN s + 1 ELSE s
NextSeq(s, ok) == s + 1

ProcessAlive == pc \notin {"off", "exit1", "crash", "done"}

\* while seq < self.total and not self._stop.is_set():
LoopIgnoresStop == seq < WRITER_TOTAL
LoopCondition == seq < WRITER_TOTAL /\ ~stopEv

\* an except clause of Writer.run matches exception e
Caught(e) == \E k \in 1..Len(Handlers) : IsInstance(e, Handlers[k][1])

\* self.records.append(r)
PrependRecord(recs, r) == <<r>> \o recs
AppendRecord(recs, r) == Append(recs, r)

\* while seq < self.total and not self._stop.is_set(): ts = now_iso()
WriterBegin ==
    /\ ProcessAlive /\ wpc = "head"
    /\ LoopCondition
    /\ ts' = now_iso(clock)
    /\ clock' = clock + 1
    /\ wpc' = "inflight"
    /\ UNCHANGED <<script, probeVars, benchVars, mainVars, seq, records, stopEv, lastExc>>

\* the loop condition fails: run() returns and the thread ends
WriterExit ==
    /\ ProcessAlive /\ wpc = "head"
    /\ ~LoopCondition
    /\ wpc' = "done"
    /\ UNCHANGED <<script, probeVars, benchVars, mainVars, seq, ts, clock, records,
                   stopEv, lastExc>>

\* insert_one returns or raises; the record is appended; seq += 1.  An exception
\* that no except clause matches leaves run(): the thread ends without a record.
WriterFinish ==
    /\ ProcessAlive /\ wpc = "inflight"
    /\ \E e \in {driverFault, "none"} :
          /\ lastExc' = e
          /\ IF e = "none" \/ Caught(e)
             THEN /\ records' = AppendRecord(records,
                        IF e = "none" THEN Rec(seq, ts, TRUE, None)
                        ELSE Rec(seq, ts, FALSE, Some(RecordedKind(e))))
                  /\ seq' = NextSeq(seq, e = "none")
                  /\ wpc' = "sleep"
             ELSE /\ wpc' = "done"
                  /\ UNCHANGED <<records, seq>>
    /\ UNCHANGED <<script, probeVars, benchVars, mainVars, ts, clock, stopEv>>

\* the sliced sleep ends (interval elapsed or stop set)
WriterWake ==
    /\ ProcessAlive /\ wpc = "sleep"
    /\ wpc' = "head"
    /\ UNCHANGED <<script, probeVars, benchVars, mainVars, seq, ts, clock, records,
                   stopEv, lastExc>>

-----------------------------------------------------------------------------
(* Helpers of main.                                                        *)

Max(S) == CHOOSE m \in S : \A x \in S : x <= m
Min(S) == CHOOSE m \in S : \A x \in S : m <= x

RECURSIVE SortedSeqOf(_)
\* sorted(...): the ascending list of a set of integers
SortedSeqOf(S) == IF S = {} THEN <<>>
                  ELSE <<Min(S)>> \o SortedSeqOf(S \ {Min(S)})

SetOf(s) == {s[i] : i \in 1..Len(s)}

\* for r in list(writer.records): if not r[2]: first_failure = r[1]; break
LastFailureIn(snapshot) ==
    LET F == {i \in 1..Len(snapshot) : ~snapshot[i].ok}
    IN IF F = {} THEN None ELSE snapshot[Max(F)].ts
FirstFailureIn(snapshot) ==
    LET F == {i \in 1..Len(snapshot) : ~snapshot[i].ok}
    IN IF F = {} THEN None ELSE snapshot[Min(F)].ts

\* tr > tf
LaterAlways(tr, tf) == TRUE
Later(tr, tf) == tr[1] > tf[1]

\* for r in list(writer.records): if r[2]: tr = iso_to_dt(r[1]);
\*     if tr and tf and tr > tf: first_success_after = r[1]; break
FirstSuccessAfterIn(snapshot, tf) ==
    LET S == {i \in 1..Len(snapshot) :
                /\ snapshot[i].ok
                /\ iso_to_dt(snapshot[i].ts) # None /\ tf # None
                /\ Later(iso_to_dt(snapshot[i].ts), tf)}
    IN IF S = {} THEN None ELSE snapshot[Min(S)].ts

\* What a read of one node yields: None when the driver raises, else the set read.
ReadOutcomes(Domain) == {None} \cup {Some(S) : S \in SUBSET Domain}

\* list_seqs(uri): the sorted seq list of the node, or None when the read raises
list_seqs(read) == IF read = None THEN None ELSE Some(SortedSeqOf(read[1]))

RECURSIVE BaselineScan(_, _, _, _)
\* the loop of choose_baseline over seqs_map.items(), from position i
BaselineScan(m, i, best, best_max) ==
    IF i > Len(NodeOrder) THEN best
    ELSE LET n == NodeOrder[i]
             s == m[n]
             v == IF s = None \/ s[1] = <<>> THEN -1 ELSE Max(SetOf(s[1]))
         IN IF v > best_max THEN BaselineScan(m, i + 1, Some(n), v)
                            ELSE BaselineScan(m, i + 1, best, best_max)

FirstNonEmpty(m) ==
    LET R == {i \in 1..Len(NodeOrder) :
                m[NodeOrder[i]] # None /\ m[NodeOrder[i]][1] # <<>>}
    IN IF R = {} THEN None ELSE Some(NodeOrder[Min(R)])
choose_baseline(m) == BaselineScan(m, 1, None, -1)

\* the per-node comparison: "read error" (None) or sorted(base_set - set(s))
MissingMap(m, b) ==
    LET base_set == IF m[b] = None THEN {} ELSE SetOf(m[b][1])
    IN [n \in Nodes |->
          IF m[n] = None THEN None
          ELSE Some(SortedSeqOf(base_set \ SetOf(m[n][1])))]

\* Thread.join(timeout): returns once the thread has ended, or, with a timeout,
\* while the thread is still blocked in a driver call longer than the timeout
\* (a sleeping writer reacts to stop within one 0.1 s slice).
JoinBlocks(hasTimeout) == FALSE
JoinMayReturn(hasTimeout) == wpc = "done" \/ (hasTimeout /\ wpc = "inflight")

\* Writer.__init__ rebinds self._stop to an Event; where Thread.join calls
\* self._stop() after the thread has ended, the call raises TypeError.
JoinRaises == legacyJoin /\ wpc = "done"

\* if np and np != primary_before
AnyPrimary(np, pb) == np # None
DifferentPrimary(np, pb) == np # None /\ np # pb

\* while len(writer.records) < WRITES_BEFORE_STOP: time.sleep(0.1)
ThresholdAlways == TRUE
ThresholdReached == Len(records) >= WRITES_BEFORE_STOP

\* while len(writer.records) < WRITER_TOTAL: time.sleep(0.1)
DrainSkipped == TRUE
DrainComplete == Len(records) >= WRITER_TOTAL

-----------------------------------------------------------------------------
(* main() of failover.py.                                                  *)

Goto(l) == pc' = l

\* client = connect(REPLICA_URI); on failure print and sys.exit(1)
MainConnect ==
    /\ pc = "connect"
    /\ \/ Goto("getPrimary") /\ UNCHANGED printed
       \/ Goto("exit1") /\ printed' = printed \cup {"cannot connect"}
    /\ UNCHANGED <<script, probeVars, benchVars, driverFault, legacyJoin, primary_before,
                   first_failure, new_primary, first_success_after, container,
                   injFailed, stopOnStopped, summary, downtime, timedOut,
                   seqs_map, majOk, joined, stopAt, baseline, missing,
                   writerVars>>

\* primary_before = get_primary_name(client)
MainGetPrimary ==
    /\ pc = "getPrimary"
    /\ \E p \in {None} \cup {Some(n) : n \in MemberNames} : primary_before' = p
    /\ Goto("setup")
    /\ UNCHANGED <<script, probeVars, benchVars, driverFault, legacyJoin, first_failure,
                   new_primary, first_success_after, container, injFailed,
                   stopOnStopped, printed, summary, downtime, timedOut,
                   seqs_map, majOk, joined, stopAt, baseline, missing,
                   writerVars>>

\* coll.drop(); coll.insert_one(sample) (uncaught), sleep, sample counts per node
MainSetup ==
    /\ pc = "setup"
    /\ \/ Goto("startWriter") /\ printed' = printed \cup {"sample counts"}
       \/ Goto("crash") /\ UNCHANGED printed
    /\ UNCHANGED <<script, probeVars, benchVars, driverFault, legacyJoin, primary_before,
                   first_failure, new_primary, first_success_after, container,
                   injFailed, stopOnStopped, summary, downtime, timedOut,
                   seqs_map, majOk, joined, stopAt, baseline, missing,
                   writerVars>>

\* writer = Writer(...); writer.start()
MainStartWriter ==
    /\ pc = "startWriter"
    /\ wpc' = "head"
    /\ Goto("waitThreshold")
    /\ UNCHANGED <<script, probeVars, benchVars, driverFault, legacyJoin, primary_before,
                   first_failure, new_primary, first_success_after, container,
                   injFailed, stopOnStopped, printed, summary, downtime,
                   timedOut, seqs_map, majOk, joined, stopAt, baseline,
                   missing, seq, ts, clock, records, stopEv, lastExc>>

\* wait until the writer produced WRITES_BEFORE_STOP records
MainWaitThreshold ==
    /\ pc = "waitThreshold"
    /\ ThresholdReached
    /\ Goto("inject")
    /\ UNCHANGED <<script, probeVars, benchVars, driverFault, legacyJoin, primary_before,
                   first_failure, new_primary, first_success_after, container,
                   injFailed, stopOnStopped, printed, summary, downtime,
                   timedOut, seqs_map, majOk, joined, stopAt, baseline,
                   missing, writerVars>>

\* try: stop_container(PRIMARY_CONTAINER) except: print; writer.stop(); ...
MainInject ==
    /\ pc = "inject"
    /\ stopOnStopped' = (stopOnStopped \/ container = "stopped")
    /\ \/ /\ container' = "stopped"
          /\ printed' = printed \cup {"Stopped at"}
          /\ Goto("scanFailure")
          /\ UNCHANGED <<injFailed, stopEv, stopAt>>
       \/ /\ injFailed' = TRUE
          /\ printed' = printed \cup {"docker stop failed"}
          /\ stopEv' = TRUE
          /\ stopAt' = wpc
          /\ Goto("abortJoin")
          /\ UNCHANGED container
    /\ UNCHANGED <<script, probeVars, benchVars, driverFault, legacyJoin, primary_before,
                   first_failure, new_primary, first_success_after, summary,
                   downtime, timedOut, seqs_map, majOk, joined, baseline,
                   missing, wpc, seq, ts, clock, records, lastExc>>

\* writer.join() on the abort path (no timeout)
MainAbortJoin ==
    /\ pc = "abortJoin"
    /\ JoinMayReturn(FALSE)
    /\ IF JoinRaises THEN Goto("crash") /\ UNCHANGED joined
                     ELSE Goto("abortExit") /\ joined' = TRUE
    /\ UNCHANGED <<script, probeVars, benchVars, driverFault, legacyJoin, primary_before,
                   first_failure, new_primary, first_success_after, container,
                   injFailed, stopOnStopped, printed, summary, downtime,
                   timedOut, seqs_map, majOk, stopAt, baseline, missing,
                   writerVars>>

\* sys.exit(1) on the abort path
MainAbortExit ==
    /\ pc = "abortExit"
    /\ Goto("exit1")
    /\ UNCHANGED <<script, probeVars, benchVars, driverFault, legacyJoin, primary_before,
                   first_failure, new_primary, first_success_after, container,
                   injFailed, stopOnStopped, printed, summary, downtime,
                   timedOut, seqs_map, majOk, joined, stopAt, baseline,
                   missing, writerVars>>

\* first-failure scan (up to 30 s): a scan of list(writer.records) finds the first
\* failed record, or the deadline elapses after a scan that found none
MainScanFailure ==
    /\ pc = "scanFailure"
    /\ LET f == FirstFailureIn(records)
       IN IF f # None
          THEN first_failure' = f /\ UNCHANGED timedOut
          ELSE first_failure' = None /\ timedOut' = timedOut \cup {"failure"}
    /\ printed' = printed \cup {"First writer failure"}
    /\ Goto("election")
    /\ UNCHANGED <<script, probeVars, benchVars, driverFault, legacyJoin, primary_before,
                   new_primary, first_success_after, container, injFailed,
                   stopOnStopped, summary, downtime, seqs_map, majOk, joined,
                   stopAt, baseline, missing, wpc, seq, ts, clock, records,
                   stopEv, lastExc>>

\* one poll of the election wait: connect and get_primary_name; an exception of
\* the poll is absorbed, a primary that differs from primary_before ends the wait
MainElectionPoll ==
    /\ pc = "election"
    /\ \E raised \in BOOLEAN, np \in {None} \cup {Some(n) : n \in MemberNames} :
          IF ~raised /\ DifferentPrimary(np, primary_before)
          THEN /\ new_primary' = np
               /\ printed' = printed \cup {"New primary elected"}
               /\ Goto("recovery")
          ELSE UNCHANGED <<new_primary, printed, pc>>
    /\ UNCHANGED <<script, probeVars, benchVars, driverFault, legacyJoin, primary_before,
                   first_failure, first_success_after, container, injFailed,
                   stopOnStopped, summary, downtime, timedOut, seqs_map, majOk,
                   joined, stopAt, baseline, missing, wpc, seq, ts, clock,
                   records, stopEv, lastExc>>

\* the 60 s of the election wait elapsed: no poll has set new_primary
MainElectionTimeout ==
    /\ pc = "election"
    /\ UNCHANGED new_primary
    /\ timedOut' = timedOut \cup {"election"}
    /\ printed' = printed \cup {"No new primary detected"}
    /\ Goto("recovery")
    /\ UNCHANGED <<script, probeVars, benchVars, driverFault, legacyJoin, primary_before,
                   first_failure, first_success_after, container, injFailed,
                   stopOnStopped, summary, downtime, seqs_map, majOk, joined,
                   stopAt, baseline, missing, wpc, seq, ts, clock, records,
                   stopEv, lastExc>>

\* recovery scan (up to 60 s, only if first_failure): the first success strictly
\* after first_failure, or the deadline elapses after a scan that found none
MainRecovery ==
    /\ pc = "recovery"
    /\ IF first_failure # None
       THEN LET tf == iso_to_dt(first_failure)
                g == FirstSuccessAfterIn(records, tf)
            IN IF g # None
               THEN first_success_after' = g /\ UNCHANGED timedOut
               ELSE /\ first_success_after' = None
                    /\ timedOut' = timedOut \cup {"recovery"}
       ELSE first_success_after' = None /\ UNCHANGED timedOut
    /\ printed' = printed \cup {"First writer success after failover"}
    /\ Goto("restart")
    /\ UNCHANGED <<script, probeVars, benchVars, driverFault, legacyJoin, primary_before,
                   first_failure, new_primary, container, injFailed,
                   stopOnStopped, summary, downtime, seqs_map, majOk, joined,
                   stopAt, baseline, missing, wpc, seq, ts, clock, records,
                   stopEv, lastExc>>

\* time.sleep(STOP_DURATION); try: start_container(...) except: print
MainRestart ==
    /\ pc = "restart"
    /\ \/ /\ container' = "running"
          /\ printed' = printed \cup {"Restarted at"}
          /\ UNCHANGED injFailed
       \/ /\ injFailed' = TRUE
          /\ printed' = printed \cup {"docker start failed"}
          /\ UNCHANGED container
    /\ Goto("drain")
    /\ UNCHANGED <<script, probeVars, benchVars, driverFault, legacyJoin, primary_before,
                   first_failure, new_primary, first_success_after,
                   stopOnStopped, summary, downtime, timedOut, seqs_map, majOk,
                   joined, stopAt, baseline, missing, wpc, seq, ts, clock,
                   records, stopEv, lastExc>>

\* stabilisation sleep, then wait until the writer produced WRITER_TOTAL records;
\* writer.stop()
MainDrain ==
    /\ pc = "drain"
    /\ DrainComplete
    /\ stopEv' = TRUE
    /\ stopAt' = wpc
    /\ Goto("join")
    /\ UNCHANGED <<script, probeVars, benchVars, driverFault, legacyJoin, primary_before,
                   first_failure, new_primary, first_success_after, container,
                   injFailed, stopOnStopped, printed, summary, downtime,
                   timedOut, seqs_map, majOk, joined, baseline, missing, wpc,
                   seq, ts, clock, records, lastExc>>

\* writer.join(timeout=5)
MainJoin ==
    /\ pc = "join"
    /\ JoinMayReturn(TRUE)
    /\ IF JoinRaises THEN Goto("crash") /\ UNCHANGED <<joined, printed>>
                     ELSE /\ Goto("summary")
                          /\ joined' = TRUE
                          /\ printed' = printed \cup {"Writer finished"}
    /\ UNCHANGED <<script, probeVars, benchVars, driverFault, legacyJoin, primary_before,
                   first_failure, new_primary, first_success_after, container,
                   injFailed, stopOnStopped, summary, downtime, timedOut,
                   seqs_map, majOk, stopAt, baseline, missing, wpc, seq, ts,
                   clock, records, stopEv, lastExc>>

\* writer summary and downtime
MainSummary ==
    /\ pc = "summary"
    /\ LET total == Len(records)
           succ == Cardinality({i \in 1..Len(records) : records[i].ok})
       IN summary' = Some(<<total, succ, total - succ>>)
    /\ IF first_success_after # None
       THEN LET t_fail == iso_to_dt(first_failure)
                t_succ == iso_to_dt(first_success_after)
            IN IF t_fail # None /\ t_succ # None
               THEN downtime' = Some(t_succ[1] - t_fail[1])
               ELSE downtime' = None
       ELSE downtime' = None
    /\ printed' = printed \cup {"Writer summary"}
                          \cup (IF first_failure # None THEN {"First failure at"} ELSE {})
                          \cup (IF first_success_after # None
                                THEN {"First success after failure at"} ELSE {})
    /\ Goto("collect")
    /\ UNCHANGED <<script, probeVars, benchVars, driverFault, legacyJoin, primary_before,
                   first_failure, new_primary, first_success_after, container,
                   injFailed, stopOnStopped, timedOut, seqs_map, majOk, joined,
                   stopAt, baseline, missing, wpc, seq, ts, clock, records,
                   stopEv, lastExc>>

\* for n, uri in NODE_URIS.items(): seqs_map[n] = list_seqs(uri)
MainCollectFrom(Domain) ==
    /\ pc = "collect"
    /\ LET i == Cardinality(DOMAIN seqs_map) + 1
       IN /\ \E read \in ReadOutcomes(Domain) :
                seqs_map' = seqs_map @@ (NodeOrder[i] :> list_seqs(read))
          /\ IF i = Len(NodeOrder) THEN Goto("compare") ELSE Goto("collect")
    /\ UNCHANGED <<script, probeVars, benchVars, driverFault, legacyJoin, primary_before,
                   first_failure, new_primary, first_success_after, container,
                   injFailed, stopOnStopped, printed, summary, downtime,
                   timedOut, majOk, joined, stopAt, baseline, missing, wpc,
                   seq, ts, clock, records, stopEv, lastExc>>

\* the collection, each node holding some of the seqs of ProbeSeqs
MainCollect == MainCollectFrom(ProbeSeqs)

\* the collection, each node holding some of the seqs 0..MaxProbeSeq
MainCollectWide == MainCollectFrom(WideProbeSeqs)

\* baseline = choose_baseline(seqs_map); the per-node missing lists
MainCompare ==
    /\ pc = "compare"
    /\ baseline' = choose_baseline(seqs_map)
    /\ IF baseline' # None
       THEN missing' = Some(MissingMap(seqs_map, baseline'[1]))
       ELSE missing' = None
    /\ printed' = printed \cup {"Baseline for comparison"}
    /\ Goto("majDrop")
    /\ UNCHANGED <<script, probeVars, benchVars, driverFault, legacyJoin, primary_before,
                   first_failure, new_primary, first_success_after, container,
                   injFailed, stopOnStopped, summary, downtime, timedOut,
                   seqs_map, majOk, joined, stopAt, wpc, seq, ts, clock,
                   records, stopEv, lastExc>>

\* majority durability test: coll.drop() (uncaught)
MainMajDrop ==
    /\ pc = "majDrop"
    /\ \/ Goto("majInsert")
       \/ Goto("crash")
    /\ UNCHANGED <<script, probeVars, benchVars, driverFault, legacyJoin, primary_before,
                   first_failure, new_primary, first_success_after, container,
                   injFailed, stopOnStopped, printed, summary, downtime,
                   timedOut, seqs_map, majOk, joined, stopAt, baseline,
                   missing, wpc, seq, ts, clock, records, stopEv, lastExc>>

\* for i in range(MAJ_BATCH): try: insert_one; ok += 1 except: print
MainMajInsert ==
    /\ pc = "majInsert"
    /\ IF majOk[1] < MAJ_BATCH
       THEN /\ \E acked \in BOOLEAN :
                 majOk' = <<majOk[1] + 1, IF acked THEN majOk[2] + 1 ELSE majOk[2]>>
            /\ Goto("majInsert")
            /\ UNCHANGED printed
       ELSE /\ printed' = printed \cup {"Inserted majority-acked docs"}
            /\ Goto("majStop")
            /\ UNCHANGED majOk
    /\ UNCHANGED <<script, probeVars, benchVars, driverFault, legacyJoin, primary_before,
                   first_failure, new_primary, first_success_after, container,
                   injFailed, stopOnStopped, summary, downtime, timedOut,
                   seqs_map, joined, stopAt, baseline, missing, wpc, seq, ts,
                   clock, records, stopEv, lastExc>>

\* try: stop_container(PRIMARY_CONTAINER) except: print
MainMajStop ==
    /\ pc = "majStop"
    /\ stopOnStopped' = (stopOnStopped \/ container = "stopped")
    /\ \/ container' = "stopped" /\ UNCHANGED <<injFailed, printed>>
       \/ /\ injFailed' = TRUE
          /\ printed' = printed \cup {"docker stop failed for majority test"}
          /\ UNCHANGED container
    /\ Goto("majStart")
    /\ UNCHANGED <<script, probeVars, benchVars, driverFault, legacyJoin, primary_before,
                   first_failure, new_primary, first_success_after, summary,
                   downtime, timedOut, seqs_map, majOk, joined, stopAt,
                   baseline, missing, wpc, seq, ts, clock, records, stopEv,
                   lastExc>>

\* time.sleep(STOP_DURATION); try: start_container(...) except: print
MainMajStart ==
    /\ pc = "majStart"
    /\ \/ container' = "running" /\ UNCHANGED <<injFailed, printed>>
       \/ /\ injFailed' = TRUE
          /\ printed' = printed \cup {"docker start failed for majority test"}
          /\ UNCHANGED container
    /\ Goto("finalCounts")
    /\ UNCHANGED <<script, probeVars, benchVars, driverFault, legacyJoin, primary_before,
                   first_failure, new_primary, first_success_after,
                   stopOnStopped, summary, downtime, timedOut, seqs_map, majOk,
                   joined, stopAt, baseline, missing, wpc, seq, ts, clock,
                   records, stopEv, lastExc>>

\* final per-node counts (each node in its own try/except); Done.
MainFinalCounts ==
    /\ pc = "finalCounts"
    /\ printed' = printed \cup {"Final counts", "Done"}
    /\ Goto("done")
    /\ UNCHANGED <<script, probeVars, benchVars, driverFault, legacyJoin, primary_before,
                   first_failure, new_primary, first_success_after, container,
                   injFailed, stopOnStopped, summary, downtime, timedOut,
                   seqs_map, majOk, joined, stopAt, baseline, missing, wpc,
                   seq, ts, clock, records, stopEv, lastExc>>

-----------------------------------------------------------------------------
WriterStep == WriterBegin \/ WriterExit \/ WriterFinish \/ WriterWake

-----------------------------------------------------------------------------
(* consistency.py (strong_consistency, eventual_consistency) and           *)
(* durablilty.py (the loop over tests): insert, probe the three nodes,     *)
(* compare, probe the secondaries again, compare.                          *)

DocIds == 1..DOC_COUNT

\* the show_docs calls of one round, in source order
FirstProbes == <<"Primary", "Secondary 1", "Secondary 2">>
AfterProbes == <<"Secondary 1 (after 5s)", "Secondary 2 (after 5s)">>

\* durablilty.py: tests (the labels), and the test after label t
Tests == <<"w:1", "w:majority", "w:3">>
NextTest(t) == Tests[1 + CHOOSE i \in 1..Len(Tests) : Tests[i] = t]

\* consistency.py show_docs: the id set read, and set() when the read raises
show_docs_consistency(read) == IF read = None THEN {} ELSE read[1]

\* durablilty.py show_docs: the id set read (an exception of the read is not caught)
show_docs_durablilty(read) == read[1]

Labels(seqn) == {seqn[i] : i \in 1..Len(seqn)}

\* the next label of probe list seqn that has no result yet
NextLabel(seqn) == seqn[Min({i \in 1..Len(seqn) : seqn[i] \notin attempted})]

\* a == b == c
AllEqual(a, b, c) == a = b /\ b = c

\* consistency.py main: ping the primary (return on failure), then strong_consistency;
\* durablilty.py: connect, coll.drop() (uncaught), then the first test
ProbeStart ==
    /\ ppc = "start"
    /\ \/ /\ ppc' = "insert"
          /\ phase' = IF script = "consistency" THEN "strong" ELSE Tests[1]
       \/ /\ ppc' = IF script = "consistency" THEN "end" ELSE "crash"
          /\ UNCHANGED phase
    /\ UNCHANGED <<ids, attempted, readFailed, verdicts, script, benchVars, mainVars,
                   writerVars>>

\* coll.drop() and the DOC_COUNT inserts of the round (uncaught)
ProbeInsert ==
    /\ ppc = "insert"
    /\ \/ /\ ppc' = "probe"
          /\ ids' = <<>> /\ attempted' = {} /\ readFailed' = {}
       \/ /\ ppc' = "crash"
          /\ UNCHANGED <<ids, attempted, readFailed>>
    /\ UNCHANGED <<phase, verdicts, script, benchVars, mainVars, writerVars>>

\* one show_docs call: ids_x = show_docs(node, label)
ShowDocs(seqn, after) ==
    LET l == NextLabel(seqn)
        last == Labels(seqn) \subseteq (attempted \cup {l})
    IN \E read \in ReadOutcomes(DocIds) :
         /\ attempted' = attempted \cup {l}
         /\ IF read = None /\ script = "durablilty"
            THEN /\ ppc' = "crash"
                 /\ readFailed' = readFailed \cup {l}
                 /\ UNCHANGED ids
            ELSE /\ ids' = ids @@ (l :> IF script = "consistency"
                                        THEN show_docs_consistency(read)
                                        ELSE show_docs_durablilty(read))
                 /\ readFailed' = IF read = None THEN readFailed \cup {l}
                                                 ELSE readFailed
                 /\ ppc' = IF last THEN after ELSE ppc

\* "Immediately after insert": Primary, Secondary 1, Secondary 2
ProbeFirst ==
    /\ ppc = "probe"
    /\ ShowDocs(FirstProbes, "compare")
    /\ UNCHANGED <<phase, verdicts, script, benchVars, mainVars, writerVars>>

\* strong_consistency: if ids_primary == ids_s1 == ids_s2; the others: missing lists
ProbeCompare ==
    /\ ppc = "compare"
    /\ LET p  == ids["Primary"]
           s1 == ids["Secondary 1"]
           s2 == ids["Secondary 2"]
       IN IF script = "consistency" /\ phase = "strong"
          THEN /\ verdicts' = verdicts \cup
                      {<<phase, "first", IF AllEqual(p, s1, s2) THEN "consistent"
                                                               ELSE "lag">>}
               /\ phase' = "eventual"
               /\ ppc' = "insert"
          ELSE /\ verdicts' = verdicts \cup
                      {<<phase, "first", IF (p \ s1) # {} \/ (p \ s2) # {}
                                         THEN "missing" ELSE "consistent">>}
               /\ ppc' = "recheck"
               /\ UNCHANGED phase
    /\ UNCHANGED <<ids, attempted, readFailed, script, benchVars, mainVars, writerVars>>

\* after the 5 s sleep: Secondary 1 (after 5s), Secondary 2 (after 5s)
ProbeRecheck ==
    /\ ppc = "recheck"
    /\ ShowDocs(AfterProbes, "final")
    /\ UNCHANGED <<phase, verdicts, script, benchVars, mainVars, writerVars>>

\* if ids_primary == ids_s1_after == ids_s2_after; then the next test
\* (durablilty.py, after coll.delete_many, uncaught) or the end of the script
ProbeFinal ==
    /\ ppc = "final"
    /\ verdicts' = verdicts \cup
          {<<phase, "after",
             IF AllEqual(ids["Primary"], ids["Secondary 1 (after 5s)"],
                         ids["Secondary 2 (after 5s)"])
             THEN "consistent" ELSE "differences">>}
    /\ IF script = "durablilty"
       THEN \/ /\ phase # Tests[Len(Tests)]
               /\ phase' = NextTest(phase) /\ ppc' = "insert"
            \/ /\ phase = Tests[Len(Tests)]
               /\ ppc' = "end" /\ UNCHANGED phase
            \/ ppc' = "crash" /\ UNCHANGED phase
       ELSE ppc' = "end" /\ UNCHANGED phase
    /\ UNCHANGED <<ids, attempted, readFailed, script, benchVars, mainVars, writerVars>>

ProbeStep ==
    ProbeStart \/ ProbeInsert \/ ProbeFirst \/ ProbeCompare \/ ProbeRecheck \/ ProbeFinal

-----------------------------------------------------------------------------
(* write_concern.py: the benchmark.                                        *)

\* tests: the acknowledgment levels in the dict's insertion order
Levels == <<"w:1", "w:majority", "w:3">>

\* (end - start) * 1000 of one insert, in whole milliseconds
Latencies == {1, 2}

RECURSIVE SumSeq(_)
SumSeq(l) == IF l = <<>> THEN 0 ELSE l[1] + SumSeq(Tail(l))

\* the printed statistics: mean as <<sum, count>>, min and max
Stats(l) == [avg |-> <<SumSeq(l), Len(l)>>,
             min |-> Min({l[i] : i \in 1..Len(l)}),
             max |-> Max({l[i] : i \in 1..Len(l)})]

\* try: insert_one(doc) except Exception: print; continue -- else latencies.append
AfterInsertAlways(lat, ok, l) == Append(lat, l)
AfterInsert(lat, ok, l) == IF ok THEN Append(lat, l) ELSE lat

\* MongoClient, ping, replSetGetStatus, coll.drop(): none of them is guarded
BenchSetup ==
    /\ bpc = "setup"
    /\ \/ bpc' = "level" /\ wcLevel' = 1
       \/ bpc' = "crash" /\ UNCHANGED wcLevel
    /\ UNCHANGED <<script, mainVars, writerVars, probeVars, wcRun, wcErr,
                   latencies, wcOut>>

\* for label, wc in tests.items(): latencies = []
BenchLevel ==
    /\ bpc = "level" /\ wcLevel <= Len(Levels)
    /\ latencies' = <<>> /\ wcRun' = 0 /\ wcErr' = 0
    /\ bpc' = "insert"
    /\ UNCHANGED <<script, mainVars, writerVars, probeVars, wcLevel, wcOut>>

\* one iteration of for i in range(RUNS)
BenchInsert ==
    /\ bpc = "insert" /\ wcRun < RUNS
    /\ \E ok \in BOOLEAN, l \in Latencies :
          /\ latencies' = AfterInsert(latencies, ok, l)
          /\ wcErr' = IF ok THEN wcErr ELSE wcErr + 1
    /\ wcRun' = wcRun + 1
    /\ UNCHANGED <<script, mainVars, writerVars, probeVars, bpc, wcLevel, wcOut>>

\* if latencies: print the statistics, else: print "No successful writes"
BenchReport ==
    /\ bpc = "insert" /\ wcRun = RUNS
    /\ wcOut' = Append(wcOut,
                  [label |-> Levels[wcLevel],
                   stats |-> IF latencies # <<>> THEN Some(Stats(latencies))
                                                 ELSE None])
    /\ wcLevel' = wcLevel + 1
    /\ bpc' = "level"
    /\ UNCHANGED <<script, mainVars, writerVars, probeVars, wcRun, wcErr,
                   latencies>>

\* the loop over tests is exhausted: the closing lines are printed
BenchDone ==
    /\ bpc = "level" /\ wcLevel > Len(Levels)
    /\ bpc' = "done"
    /\ UNCHANGED <<script, mainVars, writerVars, probeVars, wcLevel, wcRun,
                   wcErr, latencies, wcOut>>

BenchStep == BenchSetup \/ BenchLevel \/ BenchInsert \/ BenchReport \/ BenchDone

-----------------------------------------------------------------------------
MainStep ==
    \/ MainConnect \/ MainGetPrimary \/ MainSetup \/ MainStartWriter
    \/ MainWaitThreshold \/ MainInject \/ MainAbortJoin \/ MainAbortExit
    \/ MainScanFailure \/ MainElectionPoll \/ MainElectionTimeout \/ MainRecovery
    \/ MainRestart \/ MainDrain \/ MainJoin \/ MainSummary \/ MainCollect
    \/ MainCompare \/ MainMajDrop \/ MainMajInsert \/ MainMajStop \/ MainMajStart
    \/ MainFinalCounts

Init ==
    /\ script \in {"failover", "consistency", "durablilty", "write_concern"}
    /\ ppc = (IF script \in {"consistency", "durablilty"} THEN "start" ELSE "off")
    /\ bpc = (IF script = "write_concern" THEN "setup" ELSE "off")
    /\ wcLevel = 0 /\ wcRun = 0 /\ wcErr = 0 /\ latencies = <<>> /\ wcOut = <<>>
    /\ phase = "none" /\ ids = <<>> /\ attempted = {} /\ readFailed = {}
    /\ verdicts = {}
    /\ pc = (IF script = "failover" THEN "connect" ELSE "off")
    /\ driverFault \in (IF script = "failover" THEN ExcTypes ELSE {"Exception"})
    /\ legacyJoin \in (IF script = "failover" THEN BOOLEAN ELSE {FALSE})
    /\ primary_before = None /\ first_failure = None /\ new_primary = None
    /\ first_success_after = None
    /\ container = "running"
    /\ injFailed = FALSE /\ stopOnStopped = FALSE
    /\ printed = {} /\ summary = None /\ downtime = None /\ timedOut = {}
    /\ seqs_map = <<>> /\ majOk = <<0, 0>>
    /\ joined = FALSE /\ stopAt = "never"
    /\ baseline = None /\ missing = None
    /\ wpc = "idle" /\ seq = 0 /\ ts = None /\ clock = 0
    /\ records = <<>> /\ stopEv = FALSE /\ lastExc = "none"

Next == MainStep \/ WriterStep \/ ProbeStep \/ BenchStep

Spec == Init /\ [][Next]_vars

\* The writer is a thread of the interpreter and main is its main thread: each
\* is scheduled again and again while it can take a step, and every driver call
\* returns within the client's timeouts.
FairSpec == Spec /\ WF_vars(MainStep) /\ WF_vars(WriterStep)

\* The final comparison on its own: main of failover.py stands before the
\* collection of the per-node seq lists (l.234) after a run in which every
\* write succeeded and a new primary was elected, and the nodes may hold any
\* subsets of 0..MaxProbeSeq or be unreadable.
CompareInit ==
    /\ script = "failover" /\ pc = "collect"
    /\ ppc = "off" /\ phase = "none" /\ ids = <<>> /\ attempted = {}
    /\ readFailed = {} /\ verdicts = {}
    /\ bpc = "off" /\ wcLevel = 0 /\ wcRun = 0 /\ wcErr = 0
    /\ latencies = <<>> /\ wcOut = <<>>
    /\ driverFault = "Exception" /\ legacyJoin = FALSE
    /\ primary_before = Some("mongo1:27017")
    /\ new_primary = Some("mongo2:27017")
    /\ first_failure = None /\ first_success_after = None
    /\ timedOut = {"failure"}
    /\ container = "running" /\ injFailed = FALSE /\ stopOnStopped = FALSE
    /\ printed = {"sample counts", "Stopped at", "First writer failure",
                  "New primary elected", "First writer success after failover",
                  "Restarted at", "Writer finished", "Writer summary"}
    /\ summary = Some(<<WRITER_TOTAL, WRITER_TOTAL, 0>>) /\ downtime = None
    /\ seqs_map = <<>> /\ majOk = <<0, 0>>
    /\ joined = TRUE /\ stopAt = "done"
    /\ baseline = None /\ missing = None
    /\ wpc = "done" /\ seq = WRITER_TOTAL /\ clock = WRITER_TOTAL
    /\ ts = now_iso(WRITER_TOTAL - 1)
    /\ records = [i \in 1..WRITER_TOTAL |-> Rec(i - 1, now_iso(i - 1), TRUE, None)]
    /\ stopEv = TRUE /\ lastExc = "none"

CompareNext == MainCollectWide \/ MainCompare

CompareSpec == CompareInit /\ [][CompareNext]_vars

-----------------------------------------------------------------------------
(* Properties.                                                             *)

\* C1: in every reachable state of Writer.run the sequence numbers in
\* writer.records are exactly 0, 1, ..., len(records)-1 in list order, whatever
\* mix of successful and failed inserts occurred.
C1_SeqContiguous == \A i \in 1..Len(records) : records[i].seq = i - 1

\* a full run holding both a failed and a successful record
C1_MixedRun ==
    /\ Len(records) = WRITER_TOTAL
    /\ \E i, j \in 1..Len(records) : records[i].ok /\ ~records[j].ok

\* C2: once a Writer.join that followed Writer.stop has returned to main,
\* writer.records never grows again (nor changes).
C2_NoAppendAfterJoin == [][joined => records' = records]_vars

\* join has returned after a stop() that hit the writer while an insert was in flight
C2_StoppedInFlight == joined /\ stopAt = "inflight" /\ Len(records) > 0

\* C3: whenever stop_container or start_container fails during main, the
\* scenario aborts: after the failed call main is on its abort path (stopping the
\* writer, exiting) and executes no later scenario step.
C3_InjectorFailureAborts ==
    injFailed => pc \in {"abortJoin", "abortExit", "exit1", "crash"}

\* The outcome kind the claim assigns to each error class: the prefix of the
\* except clause written for that class.
ClaimedKind(e) ==
    Handlers[CHOOSE k \in 1..Len(Handlers) : Handlers[k][1] = e][2]

\* C4: each failed write attempt is recorded under the outcome kind of the error
\* that occurred (ServerSelectionTimeoutError, AutoReconnect, WriteConcernError,
\* NotPrimaryError, anything else), so that the kinds are distinguishable.
C4_RecordedUnderOwnKind ==
    (lastExc # "none" /\ Len(records) > 0) =>
        records[Len(records)].err = Some(ClaimedKind(lastExc))

\* C5: in list_seqs and in show_docs the result for a node whose read failed
\* differs from the result for a node that holds no documents, and no comparison
\* of id sets counts an unreadable node as an empty one.
C5_UnreadableIsNotEmpty ==
    /\ list_seqs(None) # list_seqs(Some({}))
    /\ \A l \in readFailed \cap DOMAIN ids : ids[l] # show_docs_consistency(Some({}))
    /\ \A v \in verdicts : v[3] = "consistent" => readFailed = {}

\* C6: in every probe round each of the three nodes is probed, whichever other
\* nodes fail: when a round is over, none of its reads has been skipped.
C6_EveryNodeProbed ==
    /\ "Baseline for comparison" \in printed => DOMAIN seqs_map = Nodes
    /\ (attempted # {} /\ ppc # "probe") => Labels(FirstProbes) \subseteq attempted
    /\ (attempted \cap Labels(AfterProbes) # {} /\ ppc # "recheck")
           => Labels(AfterProbes) \subseteq attempted

\* C7: the downtime is reported only when both a first failure and a first
\* success after it were detected, it is never negative, and no downtime is
\* reported when no failure was observed.
C7_DowntimeDefined ==
    /\ downtime # None =>
          /\ first_failure # None /\ first_success_after # None
          /\ downtime[1] >= 0
    /\ first_failure = None => downtime = None

\* main has printed a downtime
C7_DowntimeReported == pc = "collect" /\ downtime # None

\* C8: when the first fault injection fails, main still emits the partial
\* report (at least the writer summary) before it terminates.
C8_PartialReportOnAbort ==
    (pc = "exit1" /\ "docker stop failed" \in printed) => summary # None

\* C9: when a polling loop of main runs into its deadline, main still proceeds
\* to the end of the scenario: the run does not end before the writer
\* summary and the per-node comparison are produced.
C9_TimeoutsStillReport ==
    (timedOut # {} /\ pc \in {"done", "crash", "exit1"}) =>
        (summary # None /\ "Baseline for comparison" \in printed)

\* C10: stop_container is never invoked on the primary container while that
\* container is already stopped.
C10_NoStopWhileStopped == ~stopOnStopped

\* stop_container(PRIMARY_CONTAINER) has been called by main
FaultInjected == "Stopped at" \in printed \/ "docker stop failed" \in printed

Successes(recs) == Cardinality({i \in 1..Len(recs) : recs[i].ok})

\* C11: the fault is injected only after the writer has recorded at least
\* WRITES_BEFORE_STOP write attempts, whether they succeeded or failed.
C11_InjectAfterAttempts == FaultInjected => Len(records) >= WRITES_BEFORE_STOP

\* the fault was injected right at the threshold, after a failed attempt
C11_InjectedAtThreshold ==
    /\ FaultInjected /\ pc \in {"scanFailure", "abortJoin"}
    /\ Len(records) = WRITES_BEFORE_STOP /\ Successes(records) = 0

\* C11 as first stated: the fault is injected only after the writer has
\* recorded at least WRITES_BEFORE_STOP successful writes.
C11_InjectAfterSuccesses ==
    FaultInjected => Successes(records) >= WRITES_BEFORE_STOP

\* C12: once Writer.stop has been called the writer starts no new write
\* attempt, a record is appended only by the attempt that was in flight when
\* stop was set (so at most one further record), and the thread ends.
C12_StopHonoured ==
    /\ [][stopEv =>
            /\ wpc' = "inflight" => wpc = "inflight"
            /\ records' # records =>
                  /\ wpc = "inflight" /\ stopAt = "inflight"
                  /\ Len(records') = Len(records) + 1]_vars
    /\ stopEv ~> wpc = "done"

\* stop was set during an attempt; that attempt was recorded and the thread ended
C12_StoppedThenEnded ==
    stopEv /\ stopAt = "inflight" /\ wpc = "done" /\ pc = "abortJoin"

\* C13: an attempt of Writer.run that raises appends exactly one failure record
\* and the writer goes on with the next sequence number: every finished attempt
\* has its record, and the thread ends only when WRITER_TOTAL attempts were
\* made or stop was requested.
C13_ExceptionsRecorded ==
    /\ Len(records) = seq
    /\ lastExc # "none" =>
          /\ Len(records) > 0
          /\ ~records[Len(records)].ok
          /\ records[Len(records)].seq = seq - 1
    /\ wpc = "done" => seq >= WRITER_TOTAL \/ stopEv

\* every attempt raised, and the thread still made all its attempts
C13_AllAttemptsRaised ==
    /\ wpc = "done" /\ ~stopEv /\ seq = WRITER_TOTAL
    /\ \A i \in 1..Len(records) : ~records[i].ok

\* main has ended: normally, by sys.exit(1) or by an exception
MainTerminated == pc \in {"done", "exit1", "crash"}

\* C14: under fair scheduling of main and of the writer thread, main of
\* failover.py terminates on every execution: none of its waits (for the first
\* records, the failure scan, the election poll, the recovery scan, the wait
\* for all WRITER_TOTAL records, writer.join on either path) lasts forever.
C14_MainTerminates == script = "failover" => <>MainTerminated

\* main went through every wait of the normal path and ended
C14_RanToCompletion ==
    /\ pc = "done" /\ joined /\ first_failure # None
    /\ "election" \in timedOut

\* the election wait of main has ended
ElectionOver ==
    "New primary elected" \in printed \/ "No new primary detected" \in printed

\* C15: the election wait ends with new_primary None or a member name other
\* than primary_before; while it polls, new_primary is None; it ends without a
\* deadline exactly when a poll observed a different primary, and it yields
\* None exactly when the deadline ended it.
C15_ElectionOutcome ==
    /\ pc = "election" => new_primary = None
    /\ ElectionOver =>
          \/ /\ new_primary = None
             /\ "election" \in timedOut
             /\ "New primary elected" \notin printed
          \/ /\ new_primary \in {Some(n) : n \in MemberNames}
             /\ new_primary # primary_before
             /\ "election" \notin timedOut
             /\ "No new primary detected" \notin printed

\* a poll observed a member other than the primary seen before the experiment
C15_NewPrimaryObserved ==
    /\ ElectionOver /\ primary_before # None
    /\ new_primary # None /\ pc = "recovery"

IsPrefix(a, b) == Len(a) <= Len(b) /\ \A i \in 1..Len(a) : a[i] = b[i]

\* C16: every step leaves the records that writer.records already holds in
\* place and unchanged (the list before the step is a prefix of the list after
\* it), and only a step of the writer thread changes the list; so each snapshot
\* main takes is a prefix of every later snapshot and of the final list.
C16_RecordsAppendOnly ==
    [][/\ IsPrefix(records, records')
       /\ records' # records => wpc = "inflight" /\ wpc' = "sleep"]_vars

\* main scanned a snapshot while the writer was running, and the list grew since
C16_GrownSinceSnapshot ==
    /\ first_failure # None /\ wpc = "inflight"
    /\ Len(records) >= 2 /\ ~records[1].ok /\ records[2].ok
    /\ pc = "election"

\* C17: in the write-concern benchmark the latency sample of a level holds one
\* entry per insert that succeeded and none for one that failed; a level is
\* reported only after all RUNS attempts, with statistics over its successes
\* or, when it had none, with "No successful writes"; the levels are processed
\* in order, one at a time, and a failed insert never ends the script.
C17_BenchmarkPerLevel ==
    /\ Len(latencies) = wcRun - wcErr
    /\ wcRun <= RUNS
    /\ bpc = "insert" => Len(wcOut) = wcLevel - 1
    /\ \A k \in 1..Len(wcOut) : wcOut[k].label = Levels[k]
    /\ (bpc \in {"level", "done"} /\ wcOut # <<>>) =>
          /\ wcRun = RUNS
          /\ Len(wcOut) = wcLevel - 1
          /\ LET r == wcOut[Len(wcOut)]
             IN /\ r.stats = None <=> wcErr = RUNS
                /\ r.stats # None => r.stats[1].avg[2] = RUNS - wcErr
    /\ bpc = "crash" => wcLevel = 0 /\ wcOut = <<>>

\* the benchmark ended with a level that had no success, one that had failures
\* and successes, and one without failures
C17_MixedLevels ==
    /\ bpc = "done" /\ Len(wcOut) = Len(Levels)
    /\ wcOut[1].stats = None
    /\ wcOut[2].stats # None /\ wcOut[2].stats[1].avg[2] = 1
    /\ wcOut[3].stats # None /\ wcOut[3].stats[1].avg[2] = RUNS

\* the container (a key of NODE_URIS) that hosts the replica-set member of a name
ContainerOf(member) ==
    CASE member = "mongo1:27017" -> "mongo1"
      [] member = "mongo2:27017" -> "mongo2"
      [] OTHER                   -> "mongo3"

\* C18: the container main stops at fault injection is the one of the member
\* that was observed as primary before the experiment (primary_before).
C18_StopsObservedPrimary ==
    FaultInjected =>
       /\ primary_before # None
       /\ ContainerOf(primary_before[1]) = PRIMARY_CONTAINER

\* C19: when set, first_failure is the timestamp of the failed record with the
\* smallest sequence number in writer.records, and first_success_after is the
\* timestamp of the successful record with the smallest sequence number among
\* those stamped strictly later than first_failure; first_success_after is
\* never set while first_failure is None.
C19_FirstFailureAndRecovery ==
    /\ first_failure # None =>
          \E i \in 1..Len(records) :
             /\ ~records[i].ok /\ records[i].ts = first_failure
             /\ \A j \in 1..Len(records) :
                   ~records[j].ok => records[i].seq <= records[j].seq
    /\ first_success_after # None =>
          /\ first_failure # None
          /\ \E i \in 1..Len(records) :
                /\ records[i].ok /\ records[i].ts = first_success_after
                /\ records[i].ts[1] > first_failure[1]
                /\ \A j \in 1..Len(records) :
                      (records[j].ok /\ records[j].ts[1] > first_failure[1])
                         => records[i].seq <= records[j].seq

\* a success, then a failure, then the success that ends the outage
C19_OutageBracketed ==
    /\ first_success_after # None /\ Len(records) = 3
    /\ records[1].ok /\ ~records[2].ok /\ records[3].ok
    /\ pc = "restart"

\* the nodes whose seq list was read
Readable == {n \in DOMAIN seqs_map : seqs_map[n] # None}

\* the comparison printed a missing list for every readable node, all empty
AllMissingEmpty ==
    /\ "Baseline for comparison" \in printed /\ missing # None
    /\ \A n \in Readable : missing[1][n] = Some(<<>>)

\* C20: in the final per-node comparison, if the missing list printed for
\* every readable node is empty, then all readable nodes hold the same set of
\* sequence numbers.
C20_EmptyDiffsMeanConvergence ==
    AllMissingEmpty =>
       \A n1, n2 \in Readable : SetOf(seqs_map[n1][1]) = SetOf(seqs_map[n2][1])

\* positions in iteration order of the nodes with a readable, non-empty seq list
NonEmptyAt ==
    {i \in 1..Len(NodeOrder) :
        seqs_map[NodeOrder[i]] # None /\ seqs_map[NodeOrder[i]][1] # <<>>}

\* the greatest seq the node at position i holds
TopSeq(i) ==
    LET l == seqs_map[NodeOrder[i]][1]
    IN CHOOSE x \in SetOf(l) : \A y \in SetOf(l) : y <= x

\* C21: the baseline chosen in the final comparison is a node whose greatest
\* seq is maximal among the nodes with a readable, non-empty list, the first
\* such node in iteration order on ties; it is None exactly when every node is
\* unreadable or empty, and then no per-node missing list is printed.
C21_BaselineIsFirstMaximal ==
    "Baseline for comparison" \in printed =>
       /\ baseline = None <=> NonEmptyAt = {}
       /\ baseline # None =>
             \E i \in NonEmptyAt :
                /\ baseline = Some(NodeOrder[i])
                /\ \A j \in NonEmptyAt :
                      /\ TopSeq(j) <= TopSeq(i)
                      /\ TopSeq(j) = TopSeq(i) => i <= j
       /\ baseline = None => missing = None
       /\ baseline # None => missing # None

\* two nodes tie at the greatest seq behind a node that holds less
C21_TieBehindLesser ==
    /\ "Baseline for comparison" \in printed
    /\ NonEmptyAt = {1, 2, 3}
    /\ TopSeq(1) < TopSeq(2) /\ TopSeq(2) = TopSeq(3)
    /\ baseline = Some(NodeOrder[2])

=============================================================================
